---- MODULE Spec2Model ----
(***************************************************************************)
(* Model of src/main.py: the CRM list paginator (HubSpotClient), the       *)
(* language-model adapter (OpenAIClient) and the enrichment pipeline       *)
(* (CompanyCategorizer.process_contact / run).                             *)
(*                                                                         *)
(* Python strings are sequences of tokens (one-character strings, or one   *)
(* chunk of a URL); Python's None is the distinguished sequence None.      *)
(***************************************************************************)
EXTENDS Integers, Sequences, FiniteSets, TLC

VARIABLES
    pc,                            \* position of the program
    config,                        \* the Config instance
    test_mode,                     \* run()'s argument
    caller,                        \* "none" | "run" | "direct" | the adapter method called on its own
    endpoint,                      \* get_contacts_from_list: endpoint
    page_count,                    \* get_contacts_from_list: page_count
    data,                          \* get_contacts_from_list: data (last response)
    contact_ids,                   \* get_contacts_from_list / run: contact_ids
    served,                        \* record ids the server sent in the pages fetched so far
    i,                             \* run: loop index (0-based, as enumerate)
    processed_successfully_count,  \* run: processed_successfully_count
    processedIds,                  \* identifiers process_contact was called with, in call order
    contact_id,                    \* process_contact: contact_id
    contact_props,                 \* process_contact: contact_props
    company_identifier,            \* process_contact: company_identifier
    email_domain,                  \* process_contact: email_domain
    web_search_query,              \* process_contact: web_search_query
    search_text,                   \* value get_web_search_response returned
    company_context,               \* process_contact: company_context
    determined_category,           \* process_contact: determined_category
    result,                        \* process_contact's return: "none" | "true" | "false"
    calls,                         \* remote calls issued for the current contact, in order
    classify_categories,           \* get_company_category called on its own: categories_list
    classify_response,             \* get_company_category called on its own: the response
    wire,                          \* the request last put on the network, "none" when none was
    outcomes,                      \* run: what process_contact returned, in call order
    summary,                       \* run: the count the closing summary reports, <<>> before it
    returned                       \* what an adapter method called on its own returned, <<>> before

vars == <<pc, config, test_mode, caller, endpoint, page_count, data, contact_ids,
          served, i, processed_successfully_count, processedIds, contact_id,
          contact_props, company_identifier, email_domain, web_search_query,
          search_text, company_context, determined_category, result, calls,
          classify_categories, classify_response, wire, outcomes, summary,
          returned>>

pagVars == <<endpoint, page_count, data, contact_ids, served>>
loopVars == <<i, processed_successfully_count, processedIds, outcomes, summary>>
contactVars == <<contact_id, contact_props, company_identifier, email_domain,
                 web_search_query, search_text, company_context,
                 determined_category, result, calls, classify_categories,
                 classify_response>>

(***************************************************************************)
(* Bounds of the model.                                                    *)
(***************************************************************************)
\* most record identifiers the server's list holds over one pagination
MaxContacts == 2

(***************************************************************************)
(* Python values.                                                          *)
(***************************************************************************)
None == <<"<None>">>

\* Python truthiness of an Optional[str]
Truthy(s) == s # None /\ s # <<>>

\* the least index at which sub occurs in s, 0 when it does not (str.find + 1)
Find(s, sub) ==
    LET hits == {k \in 1..(Len(s) - Len(sub) + 1) : SubSeq(s, k, k + Len(sub) - 1) = sub}
    IN  IF hits = {} THEN 0 ELSE CHOOSE k \in hits : \A m \in hits : k <= m

\* Python's `sub in s`
Contains(s, sub) == Find(s, sub) # 0

\* s.split(sub, 1)[-1], for s that contains sub
AfterFirst(s, sub) == SubSeq(s, Find(s, sub) + Len(sub), Len(s))

\* s.split(ch)[-1]: what follows the last occurrence of the token ch
AfterLast(s, ch) ==
    LET hits == {k \in 1..Len(s) : s[k] = ch}
    IN  IF hits = {} THEN s
        ELSE SubSeq(s, (CHOOSE k \in hits : \A m \in hits : m <= k) + 1, Len(s))

\* s.strip()
RECURSIVE LStrip(_)
LStrip(s) == IF s # <<>> /\ Head(s) = " " THEN LStrip(Tail(s)) ELSE s
RECURSIVE RStrip(_)
RStrip(s) == IF s # <<>> /\ s[Len(s)] = " " THEN RStrip(SubSeq(s, 1, Len(s) - 1)) ELSE s
Strip(s) == RStrip(LStrip(s))

\* s.split(ch): the pieces of s between occurrences of the token ch
RECURSIVE Split(_, _)
Split(s, ch) ==
    LET hits == {k \in 1..Len(s) : s[k] = ch}
    IN  IF hits = {} THEN <<s>>
        ELSE LET k == CHOOSE x \in hits : \A m \in hits : x <= m
             IN  <<SubSeq(s, 1, k - 1)>> \o Split(SubSeq(s, k + 1, Len(s)), ch)

\* sep.join(parts)
RECURSIVE Join(_, _)
Join(parts, sep) ==
    IF parts = <<>> THEN <<>>
    ELSE IF Len(parts) = 1 THEN parts[1]
    ELSE parts[1] \o sep \o Join(Tail(parts), sep)

\* the named replacement fields a template may hold, as single tokens
Placeholders == {"{categories}", "{company_info}", "{web_context}", "{company_query}",
                 "{industry}"}

\* str.format(**kwargs): kwargs maps field tokens to strings; a field that is
\* not supplied raises KeyError (ok = FALSE)
RECURSIVE Format(_, _)
Format(template, kwargs) ==
    IF template = <<>> THEN [ok |-> TRUE, text |-> <<>>]
    ELSE LET tok == Head(template)
             rest == Format(Tail(template), kwargs)
         IN  IF tok \in DOMAIN kwargs
             THEN [ok |-> rest.ok, text |-> kwargs[tok] \o rest.text]
             ELSE IF tok \in Placeholders
             THEN [ok |-> FALSE, text |-> <<>>]
             ELSE [ok |-> rest.ok, text |-> <<tok>> \o rest.text]

(***************************************************************************)
(* Configuration (Config, lines 12-32).                                    *)
(***************************************************************************)
HUBSPOT_API_BASE_URL == <<"https://", "api.hubapi.com">>

GoodSearchTemplate == <<"f", ":", "{company_query}">>
BadSearchTemplate == <<"f", ":", "{company_query}", "{industry}">>
GoodSystemMessage == <<"s", ":", "{categories}">>
GoodUserTemplate == <<"{company_info}", "|", "{web_context}", "|", "{categories}">>
BadUserTemplate == <<"{company_info}", "|", "{industry}">>

\* a configuration with every option set
BaseConfig ==
    [HUBSPOT_ACCESS_TOKEN |-> <<"t">>,
     HUBSPOT_LIST_ID |-> <<"7">>,
     HUBSPOT_CATEGORY_PROPERTY_INTERNAL_NAME |-> <<"c", "a", "t">>,
     HUBSPOT_COMPANY_CONTEXT_PROPERTY_INTERNAL_NAME |-> <<"c", "t", "x">>,
     OPENAI_API_KEY |-> <<"k">>,
     OPENAI_SYSTEM_MESSAGE |-> GoodSystemMessage,
     OPENAI_USER_MESSAGE_TEMPLATE |-> GoodUserTemplate,
     OPENAI_WEB_SEARCH_QUERY_TEMPLATE |-> GoodSearchTemplate,
     CATEGORY_NAMES_ENV |-> <<"B", ",", " ", "A", "B", ",", " ">>]

\* the environments considered: every option set, or one option deviating
Configs ==
    {BaseConfig}
    \cup {[BaseConfig EXCEPT !.HUBSPOT_ACCESS_TOKEN = v] : v \in {None, <<>>}}
    \cup {[BaseConfig EXCEPT !.HUBSPOT_LIST_ID = None]}
    \cup {[BaseConfig EXCEPT !.HUBSPOT_CATEGORY_PROPERTY_INTERNAL_NAME = None]}
    \cup {[BaseConfig EXCEPT !.HUBSPOT_COMPANY_CONTEXT_PROPERTY_INTERNAL_NAME = None]}
    \cup {[BaseConfig EXCEPT !.OPENAI_API_KEY = None]}
    \cup {[BaseConfig EXCEPT !.CATEGORY_NAMES_ENV = v] : v \in {None, <<" ", ",", " ">>}}
    \cup {[BaseConfig EXCEPT !.OPENAI_WEB_SEARCH_QUERY_TEMPLATE = BadSearchTemplate]}
    \cup {[BaseConfig EXCEPT !.OPENAI_USER_MESSAGE_TEMPLATE = BadUserTemplate]}

\* Config.HUBSPOT_CATEGORY_FIELD_NAMES (lines 27-32)
RECURSIVE StripAndDropEmpty(_)
StripAndDropEmpty(parts) ==
    IF parts = <<>> THEN <<>>
    ELSE IF Strip(Head(parts)) # <<>>
         THEN <<Strip(Head(parts))>> \o StripAndDropEmpty(Tail(parts))
         ELSE StripAndDropEmpty(Tail(parts))

HUBSPOT_CATEGORY_FIELD_NAMES(cfg) ==
    IF ~Truthy(cfg.CATEGORY_NAMES_ENV) THEN <<>>
    ELSE StripAndDropEmpty(Split(cfg.CATEGORY_NAMES_ENV, ","))

(***************************************************************************)
(* Remote request gateway (APIClient._make_request, lines 47-67).          *)
(* A server response is a record; kind is "error" for a transport failure, *)
(* a non-2xx status or an undecodable body, "empty_object" for the JSON    *)
(* body {}, "malformed" for a JSON body that is not an object (a non-empty *)
(* array), and otherwise the kind of a well-formed body.                   *)
(***************************************************************************)
\* lines 49-55: whether _make_request puts the request on the network
GatewaySends(api_key) == Truthy(api_key)

MakeRequest(api_key, resp) ==
    IF ~Truthy(api_key) THEN [resp EXCEPT !.kind = "none"]
    ELSE IF resp.kind = "error" THEN [resp EXCEPT !.kind = "none"]
    ELSE resp

\* Python truthiness of what _make_request returned
DataTruthy(d) == d.kind \notin {"none", "empty_object"}

(***************************************************************************)
(* List membership paginator (HubSpotClient.get_contacts_from_list).       *)
(***************************************************************************)
MAX_PAGES_TO_FETCH == 20

ContactIds == {"c1", "c2"}

\* a member record of a page: with or without the recordId key
Rec(id) == [has |-> TRUE, recordId |-> id]
NoRec == [has |-> FALSE, recordId |-> "-"]

\* the member lists a page may carry
PageResults ==
    {<<>>, <<Rec("c1")>>, <<Rec("c2")>>, <<Rec("c2"), Rec("c1")>>,
     <<Rec("c1"), NoRec, Rec("c2")>>, <<NoRec, Rec("c1"), Rec("c1"), Rec("c2")>>}

ListPath == <<"/crm/v3/lists/", "7", "/memberships">>

\* the next-page links a page may carry (None: no paging.next.link)
NextLinks ==
    {None,
     HUBSPOT_API_BASE_URL \o ListPath \o <<"?", "after=", "9", "&", "limit=", "100">>,
     HUBSPOT_API_BASE_URL \o ListPath \o <<"?", "after=", "9">>,
     HUBSPOT_API_BASE_URL \o <<"/next">>,
     <<"https://", "evil.example", "/next">>,
     <<"https://", "api.hubapi.com", ".evil.example", "/next">>}

NoPage == [kind |-> "none", results |-> <<>>, link |-> None]

\* the responses the server may give to a page request
PageResponses ==
    {[NoPage EXCEPT !.kind = k] : k \in {"error", "empty_object", "malformed"}}
    \cup [kind : {"page"}, results : PageResults, link : NextLinks]

\* the members of a page that hold a record id, in page order
PageIds(results) == SelectSeq(results, LAMBDA m : m.has)

RECURSIVE RecordIds(_)
RecordIds(ms) == IF ms = <<>> THEN <<>> ELSE <<Head(ms).recordId>> \o RecordIds(Tail(ms))

\* a faulty accumulation: each page replaces what was accumulated
M_Accumulate(ids, results) == RecordIds(PageIds(results))

\* the for loop of lines 94-96
RECURSIVE Accumulate(_, _)
Accumulate(ids, results) ==
    IF results = <<>> THEN ids
    ELSE Accumulate(IF Head(results).has THEN Append(ids, Head(results).recordId) ELSE ids,
                    Tail(results))

\* lines 98-110: the endpoint of the next request, None to stop
NextEndpoint(base_url, link) ==
    IF Truthy(link)
    THEN IF Contains(link, base_url)
         THEN LET ep == AfterFirst(link, base_url)
              IN  IF ~Contains(ep, <<"limit=">>)
                  THEN ep \o <<IF Contains(ep, <<"?">>) THEN "&" ELSE "?">> \o <<"limit=", "100">>
                  ELSE ep
         ELSE None
    ELSE None

\* a faulty loop condition: the bound is off by one
M_LoopCond(ep, count) == Truthy(ep) /\ count <= MAX_PAGES_TO_FETCH

\* line 86: the while condition
LoopCond(ep, count) == Truthy(ep) /\ count < MAX_PAGES_TO_FETCH

\* a faulty failure path: the accumulated identifiers are dropped
M_OnPageFailure(ids) == <<>>

\* what the contact_ids are on a failed page fetch (lines 90-92: left as they are)
OnPageFailure(ids) == ids

(***************************************************************************)
(* Initial state: a Config has been built from the environment.            *)
(***************************************************************************)
NoProps == [email |-> None, company |-> None]

\* no response of the chat completion backend yet
NoReply == [kind |-> "none", choices |-> <<>>]

BlankContact ==
    /\ contact_id = None
    /\ contact_props = NoProps
    /\ company_identifier = None
    /\ email_domain = None
    /\ web_search_query = None
    /\ search_text = None
    /\ company_context = None
    /\ determined_category = None
    /\ result = "none"
    /\ calls = <<>>
    /\ classify_categories = <<>>
    /\ classify_response = NoReply

Init ==
    /\ pc = "start"
    /\ config \in Configs
    /\ test_mode = TRUE
    /\ caller = "none"
    /\ endpoint = None
    /\ page_count = 0
    /\ data = NoPage
    /\ contact_ids = <<>>
    /\ served = <<>>
    /\ i = 0
    /\ processed_successfully_count = 0
    /\ processedIds = <<>>
    /\ outcomes = <<>>
    /\ summary = <<>>
    /\ returned = <<>>
    /\ BlankContact
    /\ wire = "none"

\* CompanyCategorizer.__init__ (lines 221-229)
Construct ==
    /\ UNCHANGED returned
    /\ pc = "start"
    /\ pc' = IF ~Truthy(config.HUBSPOT_ACCESS_TOKEN) \/ ~Truthy(config.OPENAI_API_KEY)
             THEN "init_error" ELSE "constructed"
    /\ UNCHANGED <<config, test_mode, caller, pagVars, loopVars, contactVars, wire>>

\* a faulty check: the list identifier is not looked at
M_MissingConfigs(cfg) ==
    (IF ~Truthy(cfg.HUBSPOT_ACCESS_TOKEN) THEN {"HUBSPOT_ACCESS_TOKEN"} ELSE {})
    \cup (IF ~Truthy(cfg.HUBSPOT_CATEGORY_PROPERTY_INTERNAL_NAME)
          THEN {"HUBSPOT_CATEGORY_PROPERTY_INTERNAL_NAME"} ELSE {})
    \cup (IF ~Truthy(cfg.OPENAI_API_KEY) THEN {"OPENAI_API_KEY"} ELSE {})

\* run, lines 320-327: the names of the missing options
MissingConfigs(cfg) ==
    (IF ~Truthy(cfg.HUBSPOT_ACCESS_TOKEN) THEN {"HUBSPOT_ACCESS_TOKEN"} ELSE {})
    \cup (IF ~Truthy(cfg.HUBSPOT_LIST_ID) THEN {"HUBSPOT_LIST_ID"} ELSE {})
    \cup (IF ~Truthy(cfg.HUBSPOT_CATEGORY_PROPERTY_INTERNAL_NAME)
          THEN {"HUBSPOT_CATEGORY_PROPERTY_INTERNAL_NAME"} ELSE {})
    \cup (IF ~Truthy(cfg.OPENAI_API_KEY) THEN {"OPENAI_API_KEY"} ELSE {})
    \cup (IF HUBSPOT_CATEGORY_FIELD_NAMES(cfg) = <<>>
          THEN {"HUBSPOT_CATEGORY_FIELD_NAMES"} ELSE {})

\* run(test_mode), lines 317-341 and 78-84: the configuration check, then the
\* paginator is entered
Run(tm) ==
    /\ UNCHANGED returned
    /\ pc = "constructed"
    /\ test_mode' = tm
    /\ caller' = "run"
    /\ IF MissingConfigs(config) # {}
       THEN /\ pc' = "done"
            /\ UNCHANGED pagVars
       ELSE /\ pc' = "paging"
            /\ endpoint' = <<"/crm/v3/lists/">> \o config.HUBSPOT_LIST_ID
                           \o <<"/memberships", "?", "limit=", "100">>
            /\ page_count' = 0
            /\ contact_ids' = <<>>
            /\ UNCHANGED <<data, served>>
    /\ UNCHANGED <<config, loopVars, contactVars, wire>>

\* one iteration of the while loop of lines 86-110: a page request and what
\* the code does with the response
PageStep(resp) ==
    /\ UNCHANGED returned
    /\ pc = "paging"
    /\ LoopCond(endpoint, page_count)
    /\ Len(served) + Len(PageIds(resp.results)) <= MaxContacts
    /\ LET d == MakeRequest(config.HUBSPOT_ACCESS_TOKEN, resp)
       IN  /\ page_count' = page_count + 1
           /\ data' = d
           /\ IF ~DataTruthy(d)
              THEN /\ pc' = "pag_exit"
                   /\ contact_ids' = OnPageFailure(contact_ids)
                   /\ UNCHANGED <<endpoint, served>>
              ELSE IF d.kind = "malformed"
              THEN /\ pc' = "crashed"
                   /\ UNCHANGED <<endpoint, contact_ids, served>>
              ELSE /\ contact_ids' = Accumulate(contact_ids, d.results)
                   /\ served' = served \o RecordIds(PageIds(d.results))
                   /\ endpoint' = NextEndpoint(HUBSPOT_API_BASE_URL, d.link)
                   /\ pc' = "paging"
    /\ wire' = IF GatewaySends(config.HUBSPOT_ACCESS_TOKEN) THEN "GET list page" ELSE wire
    /\ UNCHANGED <<config, test_mode, caller, loopVars, contactVars>>

\* the while condition of line 86 is false: lines 112-114
PageLoopEnd ==
    /\ UNCHANGED returned
    /\ pc = "paging"
    /\ ~LoopCond(endpoint, page_count)
    /\ pc' = "pag_exit"
    /\ UNCHANGED <<config, test_mode, caller, pagVars, loopVars, contactVars, wire>>

(***************************************************************************)
(* Contact repository adapter (HubSpotClient, lines 116-141).              *)
(***************************************************************************)
Emails == {None, <<"u">>, <<"u", "@">>, <<"u", "@", "d">>, <<"u", "@", "x", "@", "d">>}
Companies == {None, <<"A">>, <<"d">>}

NoContact == [kind |-> "none", props |-> NoProps]

\* the responses the server may give to a contact read; "no_properties" is an
\* object without a (non-empty) properties envelope
ContactResponses ==
    {[NoContact EXCEPT !.kind = k] :
        k \in {"error", "empty_object", "malformed", "no_properties"}}
    \cup [kind : {"contact"}, props : [email : Emails, company : Companies]]

\* get_contact_details (lines 116-127): found = FALSE stands for a falsy
\* return value (None, or an empty mapping)
GetContactDetails(api_key, resp) ==
    LET d == MakeRequest(api_key, resp)
    IN  IF DataTruthy(d)
        THEN IF d.kind = "malformed" THEN [raised |-> TRUE, found |-> FALSE, props |-> NoProps]
             ELSE IF d.kind = "no_properties"
             THEN [raised |-> FALSE, found |-> FALSE, props |-> NoProps]
             ELSE [raised |-> FALSE, found |-> TRUE, props |-> d.props]
        ELSE [raised |-> FALSE, found |-> FALSE, props |-> NoProps]

\* the responses the server may give to a contact update
UpdateResponses == {[kind |-> k] : k \in {"error", "empty_object", "updated"}}

\* update_contact (lines 129-141)
UpdateContact(api_key, resp) == DataTruthy(MakeRequest(api_key, resp))

(***************************************************************************)
(* Enrichment oracle adapter (OpenAIClient, lines 151-217).                *)
(***************************************************************************)
WebText == <<"w", "e", "b">>

Block(type, hasText, text) == [type |-> type, hasText |-> hasText, text |-> text]
Item(type, hasContent, content) == [type |-> type, hasContent |-> hasContent, content |-> content]

\* the responses the backend may give to a search request
SearchResponses ==
    {[kind |-> "error", output |-> <<>>],
     [kind |-> "malformed", output |-> <<>>],
     [kind |-> "ok", output |-> <<>>],
     [kind |-> "ok", output |-> <<Item("web_search_call", FALSE, <<>>),
                                  Item("message", TRUE,
                                       <<Block("refusal", FALSE, <<>>),
                                         Block("output_text", TRUE, WebText)>>)>>],
     [kind |-> "ok", output |-> <<Item("message", TRUE, <<Block("refusal", FALSE, <<>>)>>),
                                  Item("message", TRUE, <<Block("output_text", TRUE, WebText)>>)>>],
     [kind |-> "ok", output |-> <<Item("message", FALSE, <<>>)>>],
     [kind |-> "ok", output |-> <<Item("message", TRUE, <<Block("output_text", FALSE, <<>>)>>)>>],
     [kind |-> "ok", output |-> <<Item("message", TRUE, <<Block("output_text", TRUE, <<>>)>>)>>]}

\* next((x for x in xs if x.get("type") == type), None), as [found, value]
FirstOfType(xs, type, default) ==
    LET hits == {k \in 1..Len(xs) : xs[k].type = type}
    IN  IF hits = {} THEN [found |-> FALSE, value |-> default]
        ELSE [found |-> TRUE, value |-> xs[CHOOSE k \in hits : \A m \in hits : k <= m]]

\* get_web_search_response (lines 151-175): the text, or None
GetWebSearchResponse(resp) ==
    IF resp.kind # "ok" THEN None
    ELSE LET message_output == FirstOfType(resp.output, "message", Item("", FALSE, <<>>))
         IN  IF message_output.found /\ message_output.value.hasContent
             THEN LET text_block_item == FirstOfType(message_output.value.content,
                                                     "output_text", Block("", FALSE, <<>>))
                  IN  IF text_block_item.found /\ text_block_item.value.hasText
                      THEN text_block_item.value.text
                      ELSE None
             ELSE None

Other == <<"O", "t", "h", "e", "r">>

Choice(hasMessage, content) == [hasMessage |-> hasMessage, content |-> content]

\* the responses the backend may give to a chat completion request
ClassifyResponses ==
    {[kind |-> "error", choices |-> <<>>],
     [kind |-> "ok", choices |-> <<>>],
     [kind |-> "ok", choices |-> <<Choice(FALSE, <<>>)>>],
     [kind |-> "ok", choices |-> <<Choice(TRUE, None)>>],
     [kind |-> "ok", choices |-> <<Choice(TRUE, <<>>)>>],
     [kind |-> "ok", choices |-> <<Choice(TRUE, <<"A", "B">>)>>],
     [kind |-> "ok", choices |-> <<Choice(TRUE, <<" ", "B", " ">>)>>],
     [kind |-> "ok", choices |-> <<Choice(TRUE, <<"A", "B", "!">>)>>],
     [kind |-> "ok", choices |-> <<Choice(TRUE, <<"b">>)>>],
     [kind |-> "ok", choices |-> <<Choice(TRUE, <<"C">>), Choice(TRUE, <<"B">>)>>]}

\* `x in xs` for a list xs
InList(xs, x) == \E k \in 1..Len(xs) : xs[k] = x

\* a faulty substring tier: the category that occurs earliest in the reply
M_FirstContained(categories_list, reply) ==
    LET hits == {k \in 1..Len(categories_list) : Contains(reply, categories_list[k])}
    IN  IF hits = {} THEN Other
        ELSE categories_list[CHOOSE k \in hits : \A m \in hits :
                 Find(reply, categories_list[k]) < Find(reply, categories_list[m])
                 \/ (Find(reply, categories_list[k]) = Find(reply, categories_list[m])
                     /\ k <= m)]

\* lines 211-213: the first category of the list that occurs in the reply
RECURSIVE FirstContained(_, _)
FirstContained(categories_list, reply) ==
    IF categories_list = <<>> THEN Other
    ELSE IF Contains(reply, Head(categories_list)) THEN Head(categories_list)
    ELSE FirstContained(Tail(categories_list), reply)

\* a faulty match: the substring tier is tried before the exact match
M_MatchCategory(resp, categories_list) ==
    IF resp.kind # "ok" THEN Other
    ELSE IF Len(resp.choices) > 0
    THEN IF ~resp.choices[1].hasMessage \/ resp.choices[1].content = None THEN Other
         ELSE LET determined == Strip(resp.choices[1].content)
                  hits == {k \in 1..Len(categories_list) :
                               Contains(determined, categories_list[k])}
              IN  IF hits # {}
                  THEN categories_list[CHOOSE k \in hits : \A m \in hits : k <= m]
                  ELSE IF \E k \in 1..Len(categories_list) : categories_list[k] = determined
                  THEN determined
                  ELSE Other
    ELSE Other

\* lines 207-217: the category read off the backend's response
MatchCategory(resp, categories_list) ==
    IF resp.kind # "ok" THEN Other
    ELSE IF Len(resp.choices) > 0
    THEN IF ~resp.choices[1].hasMessage \/ resp.choices[1].content = None THEN Other
         ELSE LET determined == Strip(resp.choices[1].content)
              IN  IF InList(categories_list, determined) THEN determined
                  ELSE FirstContained(categories_list, determined)
    ELSE Other

\* get_company_category (lines 177-217); raised = TRUE when a template cannot
\* be formatted (lines 182-190, outside the try block)
GetCompanyCategory(cfg, company_info, web_context, categories_list, resp) ==
    LET cats == Join(categories_list, <<",", " ">>)
        system_message == Format(cfg.OPENAI_SYSTEM_MESSAGE, "{categories}" :> cats)
        user_message == Format(cfg.OPENAI_USER_MESSAGE_TEMPLATE,
                               ("{company_info}" :> company_info)
                               @@ ("{web_context}" :> web_context)
                               @@ ("{categories}" :> cats))
    IN  IF ~system_message.ok \/ ~user_message.ok
        THEN [raised |-> TRUE, category |-> None]
        ELSE [raised |-> FALSE, category |-> MatchCategory(resp, categories_list)]

(***************************************************************************)
(* Enrichment pipeline (CompanyCategorizer, lines 231-361).                *)
(***************************************************************************)
FallbackContext == <<"No additional web context available.">>

\* get_email_domain (lines 231-235)
get_email_domain(email) ==
    IF Truthy(email) /\ Contains(email, <<"@">>) THEN AfterLast(email, "@") ELSE None

\* lines 252-254
EmailDomainOf(props) ==
    IF Truthy(props.email) THEN get_email_domain(props.email) ELSE None

\* a faulty fallback: the whole email stands in for the company
M_CompanyIdentifier(props) ==
    IF ~Truthy(props.company) /\ Truthy(props.email) THEN props.email ELSE props.company

\* lines 251-256
CompanyIdentifier(props) ==
    IF ~Truthy(props.company) /\ Truthy(EmailDomainOf(props))
    THEN EmailDomainOf(props)
    ELSE props.company

\* a faulty query: the hint is appended whenever a domain is known
M_CompanyQueryBase(props) ==
    LET identifier == CompanyIdentifier(props)
        domain == EmailDomainOf(props)
    IN  <<"company", " ">> \o identifier
        \o (IF Truthy(domain) THEN <<" (domain: ">> \o domain \o <<")">> ELSE <<>>)

\* lines 264-266
CompanyQueryBase(props) ==
    LET identifier == CompanyIdentifier(props)
        domain == EmailDomainOf(props)
    IN  <<"company", " ">> \o identifier
        \o (IF Truthy(domain) /\ identifier # domain /\ props.company = identifier
            THEN <<" (domain: ">> \o domain \o <<")">>
            ELSE <<>>)

\* a faulty fallback: only None, not the empty text, is replaced
M_ContextOrFallback(text) == IF text = None THEN FallbackContext ELSE text

\* lines 273-275
ContextOrFallback(text) == IF ~Truthy(text) THEN FallbackContext ELSE text

\* a faulty context step: a failed write ends the contact
M_AfterContextStore(stored) == IF stored THEN "pc_classify" ELSE "pc_return"

\* lines 287-288: where process_contact goes after the context write
AfterContextStore(stored) == "pc_classify"

\* a faulty return: success whatever the category write reported
M_CategoryStoreResult(stored) == "true"

\* lines 309-312: process_contact's return value after the category write
CategoryStoreResult(stored) == IF stored THEN "true" ELSE "false"

\* a faulty break: the loop halts after every contact
M_BreakAlways(tm, idx) == TRUE

\* a faulty break: the loop halts after the second contact
M_TestModeBreak(tm, idx) == tm /\ idx = 1

\* line 354
TestModeBreak(tm, idx) == tm /\ idx = 0

\* a faulty search step: the context write is attempted whatever is configured
M_AfterSearch(context_field) == "pc_store_context"

\* a faulty search step: without a context field the classification is skipped
M_AfterSearchSkipsClassify(context_field) ==
    IF Truthy(context_field) THEN "pc_store_context" ELSE "pc_store_category"

\* line 280: where process_contact goes after the search
AfterSearch(context_field) ==
    IF Truthy(context_field) THEN "pc_store_context" ELSE "pc_classify"

\* a faulty counter: every processed contact is counted
M_CountAfter(count, outcome) == count + 1

\* lines 351-352: the counter after process_contact has returned
CountAfter(count, outcome) == IF outcome = "true" THEN count + 1 ELSE count

Call(op, cid, field, arg, ok) == [op |-> op, cid |-> cid, field |-> field, arg |-> arg, ok |-> ok]

\* entering process_contact(cid)
EnterContact(cid) ==
    /\ pc' = "pc_fetch"
    /\ contact_id' = <<cid>>
    /\ processedIds' = Append(processedIds, cid)
    /\ contact_props' = NoProps
    /\ company_identifier' = None
    /\ email_domain' = None
    /\ web_search_query' = None
    /\ search_text' = None
    /\ company_context' = None
    /\ determined_category' = None
    /\ result' = "none"
    /\ calls' = <<>>
    /\ classify_categories' = <<>>
    /\ classify_response' = NoReply

\* process_contact called on its own
CallProcessContact(cid) ==
    /\ UNCHANGED returned
    /\ pc = "constructed"
    /\ caller' = "direct"
    /\ EnterContact(cid)
    /\ UNCHANGED <<config, test_mode, pagVars, i, processed_successfully_count,
                   outcomes, summary, wire>>

\* get_contacts_from_list returns (line 114); run, lines 341-350
RunAfterList ==
    /\ UNCHANGED returned
    /\ pc = "pag_exit"
    /\ caller = "run"
    /\ endpoint' = None
    /\ page_count' = 0
    /\ data' = NoPage
    /\ IF contact_ids = <<>>
       THEN /\ pc' = "done"
            /\ UNCHANGED <<loopVars, contactVars>>
       ELSE /\ i' = 0
            /\ processed_successfully_count' = 0
            /\ EnterContact(contact_ids[1])
            /\ UNCHANGED <<outcomes, summary>>
    /\ UNCHANGED <<config, test_mode, caller, contact_ids, served, wire>>

\* process_contact, lines 239-271: the contact read, the company identifier
\* and the search query
FetchContact(resp) ==
    /\ UNCHANGED returned
    /\ pc = "pc_fetch"
    /\ LET got == GetContactDetails(config.HUBSPOT_ACCESS_TOKEN, resp)
           query == Format(config.OPENAI_WEB_SEARCH_QUERY_TEMPLATE,
                           "{company_query}" :> CompanyQueryBase(got.props))
       IN  /\ calls' = Append(calls, Call("get", contact_id, None, None, got.found))
           /\ IF got.raised
              THEN /\ pc' = "crashed"
                   /\ UNCHANGED <<contact_props, company_identifier, email_domain,
                                  web_search_query, result>>
              ELSE IF ~got.found
              THEN /\ pc' = "pc_return"
                   /\ result' = "false"
                   /\ UNCHANGED <<contact_props, company_identifier, email_domain,
                                  web_search_query>>
              ELSE /\ contact_props' = got.props
                   /\ company_identifier' = CompanyIdentifier(got.props)
                   /\ email_domain' = EmailDomainOf(got.props)
                   /\ IF ~Truthy(CompanyIdentifier(got.props))
                      THEN /\ pc' = "pc_return"
                           /\ result' = "false"
                           /\ UNCHANGED web_search_query
                      ELSE IF ~query.ok
                      THEN /\ pc' = "crashed"
                           /\ UNCHANGED <<web_search_query, result>>
                      ELSE /\ pc' = "pc_search"
                           /\ web_search_query' = query.text
                           /\ UNCHANGED result
    /\ wire' = IF GatewaySends(config.HUBSPOT_ACCESS_TOKEN) THEN "GET contact" ELSE wire
    /\ UNCHANGED <<config, test_mode, caller, pagVars, loopVars, contact_id,
                   search_text, company_context, determined_category,
                   classify_categories, classify_response>>

\* process_contact, lines 272-280: the search call and the fallback
WebSearch(resp) ==
    /\ UNCHANGED returned
    /\ pc = "pc_search"
    /\ search_text' = GetWebSearchResponse(resp)
    /\ company_context' = ContextOrFallback(search_text')
    /\ calls' = Append(calls, Call("search", contact_id, None, web_search_query,
                                   Truthy(search_text')))
    /\ pc' = AfterSearch(config.HUBSPOT_COMPANY_CONTEXT_PROPERTY_INTERNAL_NAME)
    /\ wire' = "POST responses"
    /\ UNCHANGED <<config, test_mode, caller, pagVars, loopVars, contact_id,
                   contact_props, company_identifier, email_domain,
                   web_search_query, determined_category, result,
                   classify_categories, classify_response>>

\* process_contact, lines 281-288: the context write
StoreContext(resp) ==
    /\ UNCHANGED returned
    /\ pc = "pc_store_context"
    /\ LET stored == UpdateContact(config.HUBSPOT_ACCESS_TOKEN, resp)
       IN  /\ calls' = Append(calls,
                              Call("update", contact_id,
                                   config.HUBSPOT_COMPANY_CONTEXT_PROPERTY_INTERNAL_NAME,
                                   company_context, stored))
           /\ pc' = AfterContextStore(stored)
           /\ result' = IF pc' = "pc_return" THEN "false" ELSE result
    /\ wire' = IF GatewaySends(config.HUBSPOT_ACCESS_TOKEN) THEN "PATCH contact" ELSE wire
    /\ UNCHANGED <<config, test_mode, caller, pagVars, loopVars, contact_id,
                   contact_props, company_identifier, email_domain,
                   web_search_query, search_text, company_context,
                   determined_category, classify_categories, classify_response>>

\* process_contact, lines 292-302 and 313-315: the classification
Classify(resp) ==
    /\ UNCHANGED returned
    /\ pc = "pc_classify"
    /\ LET got == GetCompanyCategory(config, company_identifier, company_context,
                                     HUBSPOT_CATEGORY_FIELD_NAMES(config), resp)
       IN  /\ calls' = Append(calls, Call("classify", contact_id, company_identifier,
                                          company_context, ~got.raised))
           /\ wire' = IF got.raised THEN wire ELSE "POST chat/completions"
           /\ IF got.raised
              THEN /\ pc' = "crashed"
                   /\ UNCHANGED <<determined_category, result>>
              ELSE /\ determined_category' = got.category
                   /\ IF Truthy(config.HUBSPOT_CATEGORY_PROPERTY_INTERNAL_NAME)
                      THEN /\ pc' = "pc_store_category"
                           /\ UNCHANGED result
                      ELSE /\ pc' = "pc_return"
                           /\ result' = "false"
    /\ UNCHANGED <<config, test_mode, caller, pagVars, loopVars, contact_id,
                   contact_props, company_identifier, email_domain,
                   web_search_query, search_text, company_context,
                   classify_categories, classify_response>>

\* process_contact, lines 303-312: the category write
StoreCategory(resp) ==
    /\ UNCHANGED returned
    /\ pc = "pc_store_category"
    /\ LET stored == UpdateContact(config.HUBSPOT_ACCESS_TOKEN, resp)
       IN  /\ calls' = Append(calls,
                              Call("update", contact_id,
                                   config.HUBSPOT_CATEGORY_PROPERTY_INTERNAL_NAME,
                                   determined_category, stored))
           /\ result' = CategoryStoreResult(stored)
    /\ pc' = "pc_return"
    /\ wire' = IF GatewaySends(config.HUBSPOT_ACCESS_TOKEN) THEN "PATCH contact" ELSE wire
    /\ UNCHANGED <<config, test_mode, caller, pagVars, loopVars, contact_id,
                   contact_props, company_identifier, email_domain,
                   web_search_query, search_text, company_context,
                   determined_category, classify_categories, classify_response>>

\* process_contact has returned to run: lines 351-361
ContactReturn ==
    /\ UNCHANGED returned
    /\ pc = "pc_return"
    /\ caller = "run"
    /\ processed_successfully_count' = CountAfter(processed_successfully_count, result)
    /\ outcomes' = Append(outcomes, result)
    /\ IF TestModeBreak(test_mode, i) \/ i + 1 >= Len(contact_ids)
       THEN /\ pc' = "done"
            /\ summary' = <<processed_successfully_count'>>
            /\ UNCHANGED <<i, processedIds, contactVars>>
       ELSE /\ i' = i + 1
            /\ EnterContact(contact_ids[i + 2])
            /\ UNCHANGED summary
    /\ UNCHANGED <<config, test_mode, caller, pagVars, wire>>

\* process_contact has returned to a caller other than run
DirectReturn ==
    /\ UNCHANGED returned
    /\ pc = "pc_return"
    /\ caller = "direct"
    /\ pc' = "done"
    /\ UNCHANGED <<config, test_mode, caller, pagVars, loopVars, contactVars, wire>>

(***************************************************************************)
(* The adapters called on their own: a HubSpotClient or an OpenAIClient    *)
(* built from the configuration by a caller other than CompanyCategorizer  *)
(* (their constructors, lines 36-45, 71-74 and 145-147, accept an absent   *)
(* credential).                                                            *)
(***************************************************************************)
\* the category lists a caller may pass to get_company_category
CategoryLists ==
    {<<>>, <<<<"B">>, <<"A", "B">>>>, <<<<"A", "B">>, <<"B">>>>,
     <<<<"B">>, <<"A">>>>, <<<<"A">>, <<"B">>>>}

\* HubSpotClient(...).get_contacts_from_list(list_id), lines 78-84
CallGetContactsFromList ==
    /\ pc = "start"
    /\ caller' = "get_contacts_from_list"
    /\ pc' = "paging"
    /\ endpoint' = <<"/crm/v3/lists/">> \o config.HUBSPOT_LIST_ID
                   \o <<"/memberships", "?", "limit=", "100">>
    /\ page_count' = 0
    /\ contact_ids' = <<>>
    /\ UNCHANGED <<config, test_mode, data, served, loopVars, contactVars, wire,
                   returned>>

\* get_contacts_from_list returns to that caller (line 114)
ListReturn ==
    /\ pc = "pag_exit"
    /\ caller = "get_contacts_from_list"
    /\ pc' = "done"
    /\ endpoint' = None
    /\ page_count' = 0
    /\ data' = NoPage
    /\ returned' = <<contact_ids>>
    /\ UNCHANGED <<config, test_mode, caller, contact_ids, served, loopVars,
                   contactVars, wire>>

\* HubSpotClient(...).get_contact_details(contact_id, ["email", "company"]),
\* lines 116-127
CallGetContactDetails(resp) ==
    /\ pc = "start"
    /\ caller' = "get_contact_details"
    /\ LET got == GetContactDetails(config.HUBSPOT_ACCESS_TOKEN, resp)
       IN  /\ pc' = IF got.raised THEN "crashed" ELSE "done"
           /\ returned' = IF got.raised THEN <<>> ELSE <<got.props>>
    /\ wire' = IF GatewaySends(config.HUBSPOT_ACCESS_TOKEN) THEN "GET contact" ELSE wire
    /\ UNCHANGED <<config, test_mode, pagVars, loopVars, contactVars>>

\* HubSpotClient(...).update_contact(contact_id, name, value), lines 129-141
CallUpdateContact(resp) ==
    /\ pc = "start"
    /\ caller' = "update_contact"
    /\ pc' = "done"
    /\ returned' = <<UpdateContact(config.HUBSPOT_ACCESS_TOKEN, resp)>>
    /\ wire' = IF GatewaySends(config.HUBSPOT_ACCESS_TOKEN) THEN "PATCH contact" ELSE wire
    /\ UNCHANGED <<config, test_mode, pagVars, loopVars, contactVars>>

\* OpenAIClient(...).get_web_search_response(query), lines 151-175
CallGetWebSearchResponse(query, resp) ==
    /\ pc = "start"
    /\ caller' = "get_web_search_response"
    /\ pc' = "done"
    /\ returned' = <<GetWebSearchResponse(resp)>>
    /\ wire' = "POST responses"
    /\ UNCHANGED <<config, test_mode, pagVars, loopVars, contactVars>>

\* OpenAIClient(...).get_company_category(company_info, web_context, cats),
\* lines 177-217
CallGetCompanyCategory(company_info, web_context, cats, resp) ==
    /\ pc = "start"
    /\ caller' = "get_company_category"
    /\ LET got == GetCompanyCategory(config, company_info, web_context, cats, resp)
       IN  /\ pc' = IF got.raised THEN "crashed" ELSE "done"
           /\ returned' = IF got.raised THEN <<>> ELSE <<got.category>>
           /\ classify_response' = IF got.raised THEN NoReply ELSE resp
           /\ wire' = IF got.raised THEN wire ELSE "POST chat/completions"
    /\ classify_categories' = cats
    /\ UNCHANGED <<config, test_mode, pagVars, loopVars, contact_id, calls,
                   contact_props, company_identifier, email_domain,
                   web_search_query, search_text, company_context,
                   determined_category, result>>

Next ==
    \/ Construct
    \/ \E tm \in BOOLEAN : Run(tm)
    \/ \E resp \in PageResponses : PageStep(resp)
    \/ PageLoopEnd
    \/ RunAfterList
    \/ \E cid \in ContactIds : CallProcessContact(cid)
    \/ \E resp \in ContactResponses : FetchContact(resp)
    \/ \E resp \in SearchResponses : WebSearch(resp)
    \/ \E resp \in UpdateResponses : StoreContext(resp)
    \/ \E resp \in ClassifyResponses : Classify(resp)
    \/ \E resp \in UpdateResponses : StoreCategory(resp)
    \/ ContactReturn
    \/ DirectReturn
    \/ CallGetContactsFromList
    \/ ListReturn
    \/ \E resp \in ContactResponses : CallGetContactDetails(resp)
    \/ \E resp \in UpdateResponses : CallUpdateContact(resp)
    \/ \E resp \in SearchResponses : CallGetWebSearchResponse(<<"q">>, resp)
    \/ \E cats \in CategoryLists, resp \in ClassifyResponses :
           CallGetCompanyCategory(<<"A">>, WebText, cats, resp)

Spec == Init /\ [][Next]_vars

\* the steps of get_contacts_from_list
PagingStep == (\E resp \in PageResponses : PageStep(resp)) \/ PageLoopEnd

\* the program is single-threaded: a paginator that can take a step takes it
FairSpec == Spec /\ WF_vars(PagingStep)

(***************************************************************************)
(* Observations used by the properties.                                    *)
(***************************************************************************)
\* the calls of kind op issued for the current contact
CallsOf(op) == SelectSeq(calls, LAMBDA c : c.op = op)

\* the writes to the field named name issued for the current contact
WritesTo(name) == SelectSeq(calls, LAMBDA c : c.op = "update" /\ c.field = name)

ContextField == config.HUBSPOT_COMPANY_CONTEXT_PROPERTY_INTERNAL_NAME
CategoryField == config.HUBSPOT_CATEGORY_PROPERTY_INTERNAL_NAME

\* the category write was issued and reported success
CategoryWriteSucceeded == \E k \in 1..Len(calls) :
    calls[k].op = "update" /\ calls[k].field = CategoryField /\ calls[k].ok

\* the contact read of the current contact returned a record
RecordFetched == calls # <<>> /\ calls[1].op = "get" /\ calls[1].ok

\* an email holds a domain: an '@' with something after the last one
HasDomain(email) ==
    /\ email # None
    /\ \E k \in 1..Len(email) : email[k] = "@"
    /\ email[Len(email)] # "@"

\* the origin of a link: its scheme and its whole host
HostTokens == {"api.hubapi.com", ".evil.example", "evil.example"}
Origin(link) ==
    LET ends == {k \in 1..Len(link) : \A m \in 2..k : link[m] \in HostTokens}
    IN  SubSeq(link, 1, CHOOSE k \in ends : \A m \in ends : m <= k)
OriginMatches(link) == Origin(link) = HUBSPOT_API_BASE_URL

\* run has ended, by returning or by an error leaving it
RunEnded == caller = "run" /\ pc \in {"done", "crashed"}

(***************************************************************************)
(* C1. In full mode run() calls process_contact exactly once for each      *)
(* identifier of the sequence, in sequence order, whatever happens inside  *)
(* a contact's processing: once the loop has been entered, run ends only   *)
(* after every identifier has been processed.                              *)
(***************************************************************************)
C1_EveryContactProcessed ==
    (RunEnded /\ ~test_mode /\ processedIds # <<>>) => processedIds = contact_ids

C3_NoIdentifierNoCalls ==
    (RecordFetched /\ ~Truthy(contact_props.company) /\ ~HasDomain(contact_props.email))
        => /\ pc \in {"pc_return", "done"}
           /\ result = "false"
           /\ Len(calls) = 1

\* a fetched record without company whose email ends in '@' was returned as a failure
C3_Witness ==
    /\ pc = "pc_return"
    /\ RecordFetched
    /\ contact_props.company = None
    /\ contact_props.email = <<"u", "@">>
    /\ result = "false"

(***************************************************************************)
(* C4. get_contacts_from_list issues at most 20 page requests and always   *)
(* terminates, whatever the server answers.                                *)
(***************************************************************************)
C4_PaginationTerminates ==
    /\ [](page_count <= MAX_PAGES_TO_FETCH)
    /\ [](pc = "paging" => <>(pc # "paging"))

\* the page bound stopped a pagination whose cursor chain had not ended
C4_Witness == pc = "pag_exit" /\ page_count = MAX_PAGES_TO_FETCH /\ Truthy(endpoint)

(***************************************************************************)
(* C5. When pagination stops early (a page fetch failed, the page bound    *)
(* was reached, or a cursor was rejected) get_contacts_from_list returns   *)
(* the identifiers of the pages fetched before the stop, in order, and the *)
(* empty sequence when the first page failed.                              *)
(***************************************************************************)
PageFetchFailed == ~DataTruthy(data)
PageBoundReached == DataTruthy(data) /\ Truthy(endpoint) /\ page_count = MAX_PAGES_TO_FETCH
CursorRejected == data.kind = "page" /\ Truthy(data.link) /\ endpoint = None

C5_PartialResultOnEarlyStop ==
    (pc = "pag_exit" /\ (PageFetchFailed \/ PageBoundReached \/ CursorRejected))
        => /\ contact_ids = served
           /\ (PageFetchFailed /\ page_count = 1) => contact_ids = <<>>

\* a later page failed after identifiers had been accumulated
C5_Witness ==
    pc = "pag_exit" /\ PageFetchFailed /\ page_count > 1 /\ contact_ids # <<>>

(***************************************************************************)
(* C6. A next-page cursor whose origin does not match the CRM base URL is  *)
(* never followed: after a page carrying such a cursor there is no         *)
(* endpoint left to request.                                               *)
(***************************************************************************)
C6_ForeignCursorNotFollowed ==
    (pc \in {"paging", "pag_exit"} /\ data.kind = "page" /\ Truthy(data.link)
     /\ ~OriginMatches(data.link))
        => endpoint = None

(***************************************************************************)
(* C7. When the chain of pages ends with a page without cursor,            *)
(* get_contacts_from_list returns the record ids of every page fetched,    *)
(* pages in fetch order and members in page order.                         *)
(***************************************************************************)
C7_AllPagesConcatenated ==
    (pc = "pag_exit" /\ data.kind = "page" /\ ~Truthy(data.link)
     /\ page_count <= MAX_PAGES_TO_FETCH)
        => contact_ids = served

\* two pages or more, two identifiers or more, the last page without cursor
C7_Witness ==
    /\ pc = "pag_exit"
    /\ data.kind = "page" /\ ~Truthy(data.link)
    /\ page_count >= 2
    /\ Len(contact_ids) >= 2

(***************************************************************************)
(* C8. In test mode run() processes the first identifier only: the loop    *)
(* index stays 0, process_contact is called for the first identifier and   *)
(* no other, every call issued is for that identifier, and run ends with   *)
(* exactly that one contact processed.                                     *)
(***************************************************************************)
C8_TestModeFirstOnly ==
    (caller = "run" /\ test_mode)
        => /\ i = 0
           /\ processedIds \in {<<>>} \cup {<<contact_ids[k]>> : k \in {1} \cap DOMAIN contact_ids}
           /\ \A k \in 1..Len(calls) : calls[k].cid = <<contact_ids[1]>>
           /\ (pc = "done" /\ contact_ids # <<>>) => processedIds = <<contact_ids[1]>>

\* a test-mode run over two members ended after a failed first contact
C8_Witness ==
    /\ caller = "run" /\ test_mode /\ pc = "done"
    /\ Len(contact_ids) >= 2
    /\ processedIds = <<contact_ids[1]>>
    /\ result = "false"

(***************************************************************************)
(* C9. Classification is called at most once per contact; a contact whose  *)
(* context write has been issued is classified whatever that write         *)
(* reported; a contact with a company identifier that process_contact      *)
(* returns after the search has been classified exactly once; and a failed *)
(* context write does not make the contact a failure when the category     *)
(* write succeeds.                                                         *)
(***************************************************************************)
ContextWriteFailed ==
    Len(WritesTo(ContextField)) = 1 /\ ~WritesTo(ContextField)[1].ok

ExpectedContext ==
    IF search_text = None \/ search_text = <<>> THEN FallbackContext ELSE search_text

C10_SentinelWhenNoSearchText ==
    \A k \in 1..Len(calls) :
        (calls[k].op = "classify" \/ (calls[k].op = "update" /\ calls[k].field = ContextField))
            => calls[k].arg = ExpectedContext

\* the search returned the empty text and the sentinel was written and classified
C10_Witness ==
    /\ search_text = <<>>
    /\ Len(WritesTo(ContextField)) = 1 /\ WritesTo(ContextField)[1].arg = FallbackContext
    /\ Len(CallsOf("classify")) = 1 /\ CallsOf("classify")[1].arg = FallbackContext

(***************************************************************************)
(* Observations of get_company_category called on its own.                 *)
(***************************************************************************)
ClassifyCalled == caller = "get_company_category"

\* the call has returned a value
ClassifyReturned == ClassifyCalled /\ pc = "done" /\ returned # <<>>

\* the backend answered with a reply text
HasReply ==
    /\ classify_response.kind = "ok"
    /\ Len(classify_response.choices) > 0
    /\ classify_response.choices[1].hasMessage
    /\ classify_response.choices[1].content # None

\* the classifier's reply: the content of the first choice, without the
\* surrounding white space
Reply == Strip(classify_response.choices[1].content)

\* the places of the supplied list whose category occurs in the reply
PlacesInReply == {k \in 1..Len(classify_categories) :
                      Contains(Reply, classify_categories[k])}

\* the reply is literally a member of the supplied list
ReplyIsCategory == \E k \in 1..Len(classify_categories) : classify_categories[k] = Reply

(***************************************************************************)
(* C11. get_company_category never fails outward: whatever the subject,    *)
(* the context, the category list, the two instruction templates and the   *)
(* outcome of the backend call, it returns a value instead of raising; the *)
(* value is a member of the supplied list or 'Other', and it is 'Other'    *)
(* whenever the call failed.                                               *)
(***************************************************************************)
C11_ClassificationNeverFailsOutward ==
    ClassifyCalled
        => /\ pc = "done"
           /\ returned # <<>>
           /\ \/ returned[1] = Other
              \/ \E k \in 1..Len(classify_categories) : classify_categories[k] = returned[1]
           /\ classify_response.kind = "error" => returned[1] = Other

(***************************************************************************)
(* C12. When the reply is not literally a member of the supplied list but  *)
(* holds at least one of its categories as a substring,                    *)
(* get_company_category returns the category that comes first in the       *)
(* supplied list among those occurring in the reply, not the one that      *)
(* occurs earliest in the reply text.                                      *)
(***************************************************************************)
C12_SubstringTierFollowsListOrder ==
    (ClassifyReturned /\ HasReply /\ ~ReplyIsCategory /\ PlacesInReply # {})
        => \E k \in PlacesInReply :
               /\ \A m \in PlacesInReply : k <= m
               /\ returned[1] = classify_categories[k]

\* the reply "AB!" with the list B, AB: B is returned although AB occurs
\* earlier in the reply
C12_Witness ==
    /\ ClassifyReturned /\ HasReply
    /\ classify_categories = <<<<"B">>, <<"A", "B">>>>
    /\ Reply = <<"A", "B", "!">>
    /\ returned = <<<<"B">>>>

(***************************************************************************)
(* C13. When the reply is literally (case-sensitively) a member of the     *)
(* supplied list, get_company_category returns it, also when a category    *)
(* earlier in the list is a substring of the reply; a reply that differs   *)
(* from every category in case is not such a match.                        *)
(***************************************************************************)
C13_ExactMatchFirst ==
    /\ (ClassifyReturned /\ HasReply /\ ReplyIsCategory) => returned[1] = Reply
    /\ (ClassifyReturned /\ HasReply /\ Reply = <<"b">>) => returned[1] = Other

\* the reply "AB" with the list B, AB: AB is returned although B, listed
\* first, is a substring of the reply
C13_Witness ==
    /\ ClassifyReturned /\ HasReply
    /\ classify_categories = <<<<"B">>, <<"A", "B">>>>
    /\ Reply = <<"A", "B">>
    /\ returned = <<<<"A", "B">>>>

(***************************************************************************)
(* C14. When a required configuration value is missing (the CRM token, the *)
(* list identifier, the category-field name, the classifier key, or a      *)
(* category list that parses to empty), a run ends before any network      *)
(* call: no page request and no contact, search or classify call is        *)
(* issued.  A missing context-field name alone does not end the run: the   *)
(* page requests are made.                                                 *)
(***************************************************************************)
RequiredMissing ==
    \/ config.HUBSPOT_ACCESS_TOKEN \in {None, <<>>}
    \/ config.HUBSPOT_LIST_ID \in {None, <<>>}
    \/ config.HUBSPOT_CATEGORY_PROPERTY_INTERNAL_NAME \in {None, <<>>}
    \/ config.OPENAI_API_KEY \in {None, <<>>}
    \/ HUBSPOT_CATEGORY_FIELD_NAMES(config) = <<>>

\* the program is being run through run(), or has not been entered yet
InRun == caller \in {"none", "run"}

C14_MissingConfigHaltsBeforeNetwork ==
    /\ (InRun /\ RequiredMissing)
           => /\ wire = "none"
              /\ pc \in {"start", "init_error", "constructed", "done"}
              /\ calls = <<>> /\ processedIds = <<>> /\ page_count = 0
    /\ (caller = "run" /\ pc = "done" /\ ~RequiredMissing) => wire # "none"

\* run has ended on a configuration without the list identifier
C14_Witness ==
    /\ caller = "run" /\ pc = "done"
    /\ config.HUBSPOT_LIST_ID = None
    /\ wire = "none"

(***************************************************************************)
(* C15. A client whose credential is absent or empty never puts a request  *)
(* on the network: the page fetch, the contact read and the contact update *)
(* need the CRM token, the web search and the classification need the      *)
(* classifier key.                                                         *)
(***************************************************************************)
C15_NoCallWithoutCredential ==
    /\ wire \in {"GET list page", "GET contact", "PATCH contact"}
           => config.HUBSPOT_ACCESS_TOKEN \notin {None, <<>>}
    /\ wire \in {"POST responses", "POST chat/completions"}
           => config.OPENAI_API_KEY \notin {None, <<>>}

(***************************************************************************)
(* C16. Within one run the remote calls are totally ordered: every page    *)
(* request precedes every contact call; the calls of one contact come in   *)
(* the order fetch, search, context write, classify, category write, each  *)
(* at most once, the search never without the fetch, the classification    *)
(* never without the search, the category write never without the          *)
(* classification; and process_contact is entered for the next contact     *)
(* only when the call for the previous one has returned.                   *)
(***************************************************************************)
\* the place of a call in the order of one contact's calls
Rank(c) ==
    IF c.op = "get" THEN 1
    ELSE IF c.op = "search" THEN 2
    ELSE IF c.op = "update" /\ c.field = CategoryField THEN 5
    ELSE IF c.op = "update" THEN 3
    ELSE 4

HasRank(r) == \E k \in 1..Len(calls) : Rank(calls[k]) = r

ContactCallsOrdered ==
    /\ \A k \in 1..Len(calls) : calls[k].cid = contact_id
    /\ \A k, m \in 1..Len(calls) : k < m => Rank(calls[k]) < Rank(calls[m])
    /\ HasRank(2) => HasRank(1)
    /\ HasRank(3) => HasRank(2)
    /\ HasRank(4) => HasRank(2)
    /\ HasRank(5) => HasRank(4)

PagesBeforeContacts ==
    /\ pc \in {"paging", "pag_exit"} => (calls = <<>> /\ processedIds = <<>>)
    /\ pc \in {"pc_fetch", "pc_search", "pc_store_context", "pc_classify",
               "pc_store_category", "pc_return"} => wire' # "GET list page"

\* a further contact is entered only from the return of the previous one
NextContactAfterReturn ==
    (processedIds # <<>> /\ processedIds' # processedIds)
        => (pc = "pc_return" /\ result \in {"true", "false"})

C16_RemoteCallsTotallyOrdered ==
    /\ [](caller = "run" => ContactCallsOrdered)
    /\ [][caller = "run" => (PagesBeforeContacts /\ NextContactAfterReturn)]_vars

\* the second contact of a run has gone through all five calls
C16_Witness ==
    /\ caller = "run" /\ pc = "pc_return"
    /\ Len(processedIds) = 2
    /\ Len(calls) = 5
    /\ calls[3].op = "update" /\ calls[3].field = ContextField
    /\ calls[5].op = "update" /\ calls[5].field = CategoryField

(***************************************************************************)
(* C17. When no context-field name is configured, no context write is      *)
(* issued for any contact: the only write a contact receives is the        *)
(* category write.  The contact is not failed for that reason: once the    *)
(* search has been made the contact is classified, with the search text,   *)
(* or with the fallback sentinel when the search yielded nothing, and      *)
(* process_contact returns True exactly when the category write succeeded. *)
(***************************************************************************)
NoContextField == ContextField \in {None, <<>>}

C17_NoContextFieldNoContextWrite ==
    NoContextField
        => /\ \A k \in 1..Len(calls) :
                  calls[k].op = "update" => calls[k].field = CategoryField
           /\ \A k \in 1..Len(calls) :
                  calls[k].op = "classify"
                      => /\ calls[k].arg = ExpectedContext
                         /\ k > 1 /\ calls[k - 1].op = "search"
           /\ (pc = "pc_return" /\ Len(CallsOf("search")) = 1)
                  => /\ Len(CallsOf("classify")) = 1
                     /\ (result = "true") <=> CategoryWriteSucceeded

\* without a context field a contact was classified on the search text and
\* returned as a success
C17_Witness ==
    /\ NoContextField
    /\ pc = "pc_return" /\ result = "true"
    /\ search_text = WebText
    /\ Len(calls) = 4
    /\ calls[3].op = "classify" /\ calls[3].arg = WebText
    /\ calls[4].op = "update" /\ calls[4].field = CategoryField /\ calls[4].ok

(***************************************************************************)
(* C18. When the contact read returns absent, process_contact returns      *)
(* False having issued no search, classify or write call for that contact, *)
(* and a full-mode run goes on to the next identifier of the sequence.     *)
(***************************************************************************)
\* the contact read of the current contact returned absent
FetchFailed ==
    /\ calls # <<>>
    /\ calls[1].op = "get" /\ ~calls[1].ok
    /\ pc # "crashed"

FetchFailureSkipsContact ==
    FetchFailed
        => /\ Len(calls) = 1
           /\ result = "false"
           /\ pc \in {"pc_return", "done"}

BatchContinuesAfterFetchFailure ==
    (caller = "run" /\ ~test_mode /\ pc = "pc_return" /\ FetchFailed
     /\ i + 1 < Len(contact_ids))
        => /\ pc' = "pc_fetch"
           /\ contact_id' = <<contact_ids[i + 2]>>
           /\ processedIds' = Append(processedIds, contact_ids[i + 2])

C18_FetchFailureSkipsContact ==
    /\ []FetchFailureSkipsContact
    /\ [][BatchContinuesAfterFetchFailure]_vars

\* the second contact of a full-mode run is being read after the read of the
\* first one returned absent
C18_Witness ==
    /\ caller = "run" /\ ~test_mode
    /\ pc = "pc_fetch"
    /\ Len(processedIds) = 2
    /\ outcomes = <<"false">>
    /\ wire = "GET contact"

(***************************************************************************)
(* C19. At every point of the batch loop the success counter equals the    *)
(* number of contacts processed so far for which process_contact returned  *)
(* True; it never decreases, never exceeds the number of contacts          *)
(* processed, is at most 1 in test mode, and the summary that closes the   *)
(* loop reports its final value.                                           *)
(***************************************************************************)
SuccessesSoFar == Cardinality({k \in 1..Len(outcomes) : outcomes[k] = "true"})

CounterCountsSuccesses ==
    /\ processed_successfully_count = SuccessesSoFar
    /\ processed_successfully_count <= Len(outcomes)
    /\ Len(outcomes) <= Len(processedIds)
    /\ test_mode => processed_successfully_count <= 1
    /\ summary # <<>> => (pc = "done" /\ summary = <<SuccessesSoFar>>)
    /\ (pc = "done" /\ processedIds # <<>>) => summary = <<processed_successfully_count>>

C19_CounterCountsSuccesses ==
    /\ [](caller = "run" => CounterCountsSuccesses)
    /\ [][processed_successfully_count' >= processed_successfully_count]_vars

\* a full-mode run over two contacts ended with one success and one failure
C19_Witness ==
    /\ caller = "run" /\ ~test_mode /\ pc = "done"
    /\ outcomes = <<"true", "false">>
    /\ processed_successfully_count = 1
    /\ summary = <<1>>

(***************************************************************************)
(* Observations of the search query.                                       *)
(***************************************************************************)
\* the record holds a company name
FromCompanyName == contact_props.company \notin {None, <<>>}

\* the email domain: what follows the last '@'
DomainOf(email) ==
    CHOOSE d \in {SubSeq(email, k + 1, Len(email)) : k \in 1..Len(email)} :
        /\ email[Len(email) - Len(d)] = "@"
        /\ \A m \in 1..Len(d) : d[m] # "@"

\* the company identifier: the company name, otherwise the email domain
IdentifierOf(props) ==
    IF props.company \notin {None, <<>>} THEN props.company
    ELSE IF HasDomain(props.email) THEN DomainOf(props.email)
    ELSE None

\* the query built on the configured template "f:{company_query}"
QueryWith(identifier, hinted, domain) ==
    <<"f", ":", "company", " ">> \o identifier
    \o (IF hinted THEN <<" (domain: ">> \o domain \o <<")">> ELSE <<>>)

(***************************************************************************)
(* C20, as stated. The search query embeds the company identifier, which   *)
(* is the company name when present and otherwise the email domain (what   *)
(* follows the last '@'); the domain hint is appended if and only if the   *)
(* identifier came from the company name and an email domain is known.     *)
(***************************************************************************)
C20_HintIffNameAndDomain ==
    web_search_query # None
        => web_search_query =
               QueryWith(IdentifierOf(contact_props),
                         FromCompanyName /\ HasDomain(contact_props.email),
                         IF HasDomain(contact_props.email)
                         THEN DomainOf(contact_props.email) ELSE <<>>)

(***************************************************************************)
(* C20, amended. The search query embeds the company identifier, which is  *)
(* the company name when present and otherwise the email domain (what      *)
(* follows the last '@'); the domain hint is appended if and only if the   *)
(* identifier came from the company name, an email domain is known and the *)
(* domain differs from the company name; it is never appended when the     *)
(* identifier is the email-domain fallback.                                *)
(***************************************************************************)
C20_HintUnlessNameIsDomain ==
    web_search_query # None
        => web_search_query =
               QueryWith(IdentifierOf(contact_props),
                         /\ FromCompanyName
                         /\ HasDomain(contact_props.email)
                         /\ DomainOf(contact_props.email) # contact_props.company,
                         IF HasDomain(contact_props.email)
                         THEN DomainOf(contact_props.email) ELSE <<>>)

\* the company name "d" with the email "u@d": the query carries no hint
C20_Witness ==
    /\ pc = "pc_search"
    /\ contact_props = [email |-> <<"u", "@", "d">>, company |-> <<"d">>]
    /\ web_search_query = <<"f", ":", "company", " ", "d">>

====
